---- MODULE Spec2Model ----
(***************************************************************************)
(* Model of generate_app_icons.py (FSPRani): create_base_icon draws the    *)
(* master icon, generate_icons resizes it to each entry of icon_sizes,     *)
(* saves the copies under icons_dir and writes the static Contents.json.   *)
(*                                                                         *)
(* An image is the record of its pixel dimensions, colour mode and the     *)
(* geometry that was drawn on it; pixel colours are not modelled.  A file  *)
(* is a record [kind, w, h, body].  The manifest text is a sequence of     *)
(* tokens: whitespace, one token per object of the "images" array, and the *)
(* "info" object.  A "size" value is the sequence of its characters.       *)
(***************************************************************************)
EXTENDS Integers, Sequences, FiniteSets, TLC

VARIABLES pc, size, base_icon, dir_exists, fs, fs0, idx, events,
          failed, failed_at, io_fault, run

vars == <<pc, size, base_icon, dir_exists, fs, fs0, idx, events,
          failed, failed_at, io_fault, run>>

(* ------------------------------ bounds -------------------------------- *)

\* generate_icons is run at most MaxRuns times against the same filesystem.
MaxRuns == 2

\* create_base_icon is explored for every size in 1..MaxSize and for 1024.
MaxSize == 120

\* Pixel dimension of the image files a populated directory holds beforehand.
StaleDim == 512

(* --------------------------- create_base_icon -------------------------- *)

\* generate_icons calls create_base_icon(1024).
MasterSize == 1024

Sizes == (1 .. MaxSize) \cup {MasterSize}

NoImage == [w |-> 0, h |-> 0, mode |-> "none", ball_pos |-> <<0, 0, 0, 0>>,
            highlight_pos |-> <<0, 0, 0, 0>>, text_y |-> 0, font |-> "none"]

\* ball_size = size // 3
ball_size(s) == s \div 3

BallPosShifted(s) ==
    << s \div 2 - ball_size(s) \div 2, s \div 2 - ball_size(s) \div 2,
       s \div 2 + ball_size(s) \div 2 + 1, s \div 2 + ball_size(s) \div 2 + 1 >>

\* ball_pos: the bounding box (x0, y0, x1, y1) handed to draw.ellipse
ball_pos(s) ==
    << s \div 2 - ball_size(s) \div 2, s \div 2 - ball_size(s) \div 2,
       s \div 2 + ball_size(s) \div 2, s \div 2 + ball_size(s) \div 2 >>

\* highlight_size = ball_size // 3
highlight_size(s) == ball_size(s) \div 3

\* highlight_pos: the bounding box of the highlight ellipse
highlight_pos(s) ==
    << s \div 2 - ball_size(s) \div 3, s \div 2 - ball_size(s) \div 3,
       s \div 2 - ball_size(s) \div 3 + highlight_size(s),
       s \div 2 - ball_size(s) \div 3 + highlight_size(s) >>

LoadFontNoFallback(available) == IF available THEN "truetype" ELSE "raise"

\* try: ImageFont.truetype(...)  except: ImageFont.load_default()
LoadFont(available) == IF available THEN "truetype" ELSE "default"

\* The image create_base_icon(size) returns, given the font that was loaded.
create_base_icon(s, font) ==
    [w |-> s, h |-> s, mode |-> "RGB",
     ball_pos |-> ball_pos(s), highlight_pos |-> highlight_pos(s),
     text_y |-> s - s \div 4, font |-> font]

ResizeKeepsHeight(img, s) == [img EXCEPT !.w = s]

\* base_icon.resize((size, size), Image.Resampling.LANCZOS): a new image of
\* the requested dimensions; the drawn geometry is resampled, not kept.
Resize(img, s) ==
    [w |-> s, h |-> s, mode |-> img.mode, ball_pos |-> <<0, 0, 0, 0>>,
     highlight_pos |-> <<0, 0, 0, 0>>, text_y |-> 0, font |-> img.font]

(* ------------------------------ files ---------------------------------- *)

Absent == [kind |-> "absent", w |-> 0, h |-> 0, mode |-> "none", body |-> <<>>]

\* What an interrupted save or write can leave at its path.
Partial == [kind |-> "partial", w |-> 0, h |-> 0, mode |-> "none", body |-> <<>>]

\* resized.save(filepath, "PNG")
PngFile(img) ==
    [kind |-> "png", w |-> img.w, h |-> img.h, mode |-> img.mode, body |-> <<>>]

\* f.write(text)
TextFile(text) == [kind |-> "text", w |-> 0, h |-> 0, mode |-> "none", body |-> text]

\* os.path.join(icons_dir, filename)
Join(dir, filename) == <<dir, filename>>

(* --------------------------- generate_icons data ------------------------ *)

Entry(s, filename) == [size |-> s, filename |-> filename]

icon_sizes ==
    << Entry(20, "Icon-20.png"), Entry(29, "Icon-29.png"),
       Entry(40, "Icon-40.png"), Entry(58, "Icon-58.png"),
       Entry(60, "Icon-60.png"), Entry(76, "Icon-76.png"),
       Entry(80, "Icon-80.png"), Entry(87, "Icon-87.png"),
       Entry(120, "Icon-120.png"), Entry(152, "Icon-152.png"),
       Entry(167, "Icon-167.png"), Entry(180, "Icon-180.png"),
       Entry(1024, "Icon-1024.png") >>

icons_dir == "/Volumes/FSP/FSPRani3/FSPRani3App/Assets.xcassets/AppIcon.appiconset"

Tok(kind, filename, idiom, scale, sz) ==
    [kind |-> kind, filename |-> filename, idiom |-> idiom, scale |-> scale,
     size |-> sz]

\* A run of whitespace in the manifest text.
Ws == Tok("ws", "", "", "", <<>>)

\* One object of the "images" array.
Img(filename, idiom, scale, sz) == Tok("image", filename, idiom, scale, sz)

\* The "info" object: author xcode, version 1.
Info == Tok("info", "", "", "", <<>>)

\* The objects of the "images" array of the contents_json literal, in order.
images ==
    << Img("Icon-40.png", "iphone", "2x", <<"2", "0", "x", "2", "0">>),
       Img("Icon-60.png", "iphone", "3x", <<"2", "0", "x", "2", "0">>),
       Img("Icon-58.png", "iphone", "2x", <<"2", "9", "x", "2", "9">>),
       Img("Icon-87.png", "iphone", "3x", <<"2", "9", "x", "2", "9">>),
       Img("Icon-80.png", "iphone", "2x", <<"4", "0", "x", "4", "0">>),
       Img("Icon-120.png", "iphone", "3x", <<"4", "0", "x", "4", "0">>),
       Img("Icon-120.png", "iphone", "2x", <<"6", "0", "x", "6", "0">>),
       Img("Icon-180.png", "iphone", "3x", <<"6", "0", "x", "6", "0">>),
       Img("Icon-20.png", "ipad", "1x", <<"2", "0", "x", "2", "0">>),
       Img("Icon-40.png", "ipad", "2x", <<"2", "0", "x", "2", "0">>),
       Img("Icon-29.png", "ipad", "1x", <<"2", "9", "x", "2", "9">>),
       Img("Icon-58.png", "ipad", "2x", <<"2", "9", "x", "2", "9">>),
       Img("Icon-40.png", "ipad", "1x", <<"4", "0", "x", "4", "0">>),
       Img("Icon-80.png", "ipad", "2x", <<"4", "0", "x", "4", "0">>),
       Img("Icon-76.png", "ipad", "1x", <<"7", "6", "x", "7", "6">>),
       Img("Icon-152.png", "ipad", "2x", <<"7", "6", "x", "7", "6">>),
       Img("Icon-167.png", "ipad", "2x", <<"8", "3", ".", "5", "x", "8", "3", ".", "5">>),
       Img("Icon-1024.png", "ios-marketing", "1x", <<"1", "0", "2", "4", "x", "1", "0", "2", "4">>) >>

contents_json_watch_idiom ==
    <<Ws>> \o [images EXCEPT ![9].idiom = "watch"] \o <<Info, Ws>>

contents_json_missing_file ==
    <<Ws>> \o [images EXCEPT ![2].filename = "Icon-100.png"] \o <<Info, Ws>>

contents_json_wrong_file ==
    <<Ws>> \o [images EXCEPT ![7].filename = "Icon-180.png"] \o <<Info, Ws>>

\* The contents_json literal: it opens and ends with a newline.
contents_json == <<Ws>> \o images \o <<Info, Ws>>

RECURSIVE LStrip(_)
LStrip(s) == IF s # <<>> /\ Head(s).kind = "ws" THEN LStrip(Tail(s)) ELSE s

RECURSIVE RStrip(_)
RStrip(s) ==
    IF s # <<>> /\ s[Len(s)].kind = "ws" THEN RStrip(SubSeq(s, 1, Len(s) - 1)) ELSE s

\* contents_json.strip()
Strip(s) == RStrip(LStrip(s))

contents_path == Join(icons_dir, "Contents.json")

Paths == {Join(icons_dir, icon_sizes[i].filename) : i \in 1 .. Len(icon_sizes)}
             \cup {contents_path}

(* ------------------------------ control flow ---------------------------- *)

makedirs_strict(exists, fault) == ~fault /\ ~exists

\* os.makedirs(icons_dir, exist_ok=True): TRUE when it returns, FALSE when it
\* raises.  An existing directory is no error; a fault of the system is.
makedirs(exists, fault) == ~fault

AfterMakedirsIgnored(ok) == "export"

\* The exception of os.makedirs is not caught: it ends the run.
AfterMakedirs(ok) == IF ok THEN "export" ELSE "aborted"

AfterSaveSkip(ok, i) ==
    IF i < Len(icon_sizes) THEN [pc |-> "export", idx |-> i + 1]
    ELSE [pc |-> "manifest", idx |-> i]

AfterSaveEndsEarly(ok, i) ==
    IF ~ok THEN [pc |-> "aborted", idx |-> i]
    ELSE IF i < Len(icon_sizes) - 1 THEN [pc |-> "export", idx |-> i + 1]
    ELSE [pc |-> "manifest", idx |-> i]

\* The for loop over icon_sizes: an exception of save is not caught and ends
\* the run; otherwise the loop goes to the next entry, or ends after the last.
AfterSave(ok, i) ==
    IF ~ok THEN [pc |-> "aborted", idx |-> i]
    ELSE IF i < Len(icon_sizes) THEN [pc |-> "export", idx |-> i + 1]
    ELSE [pc |-> "manifest", idx |-> i]

Ev(op, arg, n) == [op |-> op, arg |-> arg, n |-> n]

(* ------------------------------ initial states -------------------------- *)

EmptyFS == [p \in Paths |-> Absent]

\* A populated directory left by something else: images of another size and
\* mode, and a manifest without entries.
StaleFS ==
    [p \in Paths |->
        IF p = contents_path THEN TextFile(<<Info>>)
        ELSE [kind |-> "png", w |-> StaleDim, h |-> StaleDim, mode |-> "RGBA",
              body |-> <<>>]]

InitialFS == { [exists |-> FALSE, files |-> EmptyFS],
               [exists |-> TRUE, files |-> EmptyFS],
               [exists |-> TRUE, files |-> StaleFS] }

InitWith(s, disk) ==
    /\ pc = "start"
    /\ size = s
    /\ base_icon = NoImage
    /\ dir_exists = disk.exists
    /\ fs = disk.files
    /\ fs0 = disk.files
    /\ idx = 1
    /\ events = <<>>
    /\ failed = "none"
    /\ failed_at = 0
    /\ io_fault = FALSE
    /\ run = 1

Init == \E disk \in InitialFS : InitWith(MasterSize, disk)

(* -------------------------------- actions ------------------------------- *)

\* base_icon = create_base_icon(1024)
CreateBaseIcon ==
    /\ pc = "start"
    /\ \E available \in BOOLEAN :
         LET font == LoadFont(available) IN
           IF font = "raise"
           THEN /\ pc' = "aborted"
                /\ failed' = "font"
                /\ base_icon' = base_icon
           ELSE /\ pc' = "makedirs"
                /\ failed' = failed
                /\ base_icon' = create_base_icon(size, font)
    /\ UNCHANGED <<size, dir_exists, fs, fs0, idx, events, failed_at, io_fault, run>>

\* os.makedirs(icons_dir, exist_ok=True)
MakeDirs ==
    /\ pc = "makedirs"
    /\ \E fault \in BOOLEAN :
         LET ok == makedirs(dir_exists, fault) IN
           /\ pc' = AfterMakedirs(ok)
           /\ dir_exists' = (dir_exists \/ ok)
           /\ failed' = IF ok THEN failed ELSE "makedirs"
           /\ io_fault' = (io_fault \/ fault)
           /\ events' = Append(events, Ev("makedirs", IF ok THEN "ok" ELSE "raise", 0))
    /\ idx' = 1
    /\ UNCHANGED <<size, base_icon, fs, fs0, failed_at, run>>

\* One iteration of the loop: resize, join, save, print.
SaveIcon ==
    /\ pc = "export"
    /\ LET e == icon_sizes[idx]
           filepath == Join(icons_dir, e.filename)
           resized == Resize(base_icon, e.size)
       IN
         \/ /\ fs' = [fs EXCEPT ![filepath] = PngFile(resized)]
            /\ events' = events \o << Ev("write", e.filename, e.size),
                                      Ev("print", e.filename, e.size) >>
            /\ pc' = AfterSave(TRUE, idx).pc
            /\ idx' = AfterSave(TRUE, idx).idx
            /\ UNCHANGED <<failed, failed_at, io_fault>>
         \/ /\ \E left \in {fs[filepath], Partial, Absent} :
                 fs' = [fs EXCEPT ![filepath] = left]
            /\ events' = events
            /\ pc' = AfterSave(FALSE, idx).pc
            /\ idx' = AfterSave(FALSE, idx).idx
            /\ failed' = "save"
            /\ failed_at' = idx
            /\ io_fault' = TRUE
    /\ UNCHANGED <<size, base_icon, dir_exists, fs0, run>>

\* open(contents_path, 'w'), f.write(contents_json.strip()), the two prints.
WriteManifest ==
    /\ pc = "manifest"
    /\ \/ /\ fs' = [fs EXCEPT ![contents_path] = TextFile(Strip(contents_json))]
          /\ events' = events \o << Ev("write", "Contents.json", 0),
                                    Ev("print", "Contents.json", 0),
                                    Ev("print", "success", 0) >>
          /\ pc' = "done"
          /\ UNCHANGED <<failed, io_fault>>
       \/ /\ \E left \in {fs[contents_path], Partial} :
               fs' = [fs EXCEPT ![contents_path] = left]
          /\ events' = events
          /\ pc' = "aborted"
          /\ failed' = "manifest"
          /\ io_fault' = TRUE
    /\ UNCHANGED <<size, base_icon, dir_exists, fs0, idx, failed_at, run>>

\* The script is started again on the filesystem the last run left.
Restart ==
    /\ pc \in {"done", "aborted"}
    /\ run < MaxRuns
    /\ pc' = "start"
    /\ run' = run + 1
    /\ base_icon' = NoImage
    /\ fs0' = fs
    /\ idx' = 1
    /\ events' = <<>>
    /\ failed' = "none"
    /\ failed_at' = 0
    /\ io_fault' = FALSE
    /\ UNCHANGED <<size, dir_exists, fs>>

Next == CreateBaseIcon \/ MakeDirs \/ SaveIcon \/ WriteManifest \/ Restart

Spec == Init /\ [][Next]_vars

\* create_base_icon on its own, for every size of Sizes.
InitRender == \E s \in Sizes : InitWith(s, [exists |-> FALSE, files |-> EmptyFS])

NextRender == CreateBaseIcon

SpecRender == InitRender /\ [][NextRender]_vars

(* ----------------------- reading the state back ------------------------ *)

FileOf(filename) == fs[Join(icons_dir, filename)]

\* The names of the files written by this run, in the order of the writes.
RECURSIVE WritesOf(_)
WritesOf(ev) ==
    IF ev = <<>> THEN <<>>
    ELSE IF Head(ev).op = "write" THEN <<Head(ev).arg>> \o WritesOf(Tail(ev))
    ELSE WritesOf(Tail(ev))

Writes == WritesOf(events)

IsPrefix(s, t) == Len(s) <= Len(t) /\ SubSeq(t, 1, Len(s)) = s

\* The image file names of the external interface, in the order given there.
ListedFiles ==
    << "Icon-20.png", "Icon-29.png", "Icon-40.png", "Icon-58.png", "Icon-60.png",
       "Icon-76.png", "Icon-80.png", "Icon-87.png", "Icon-120.png", "Icon-152.png",
       "Icon-167.png", "Icon-180.png", "Icon-1024.png" >>

\* The objects of the "images" array of a manifest text, as a reader finds them.
ImagesOf(text) == SelectSeq(text, LAMBDA tok : tok.kind = "image")

ManifestOnDisk == ImagesOf(FileOf("Contents.json").body)

DigitVal(c) ==
    CASE c = "0" -> 0 [] c = "1" -> 1 [] c = "2" -> 2 [] c = "3" -> 3 [] c = "4" -> 4
      [] c = "5" -> 5 [] c = "6" -> 6 [] c = "7" -> 7 [] c = "8" -> 8 [] c = "9" -> 9

IndexOf(s, c) == CHOOSE i \in 1 .. Len(s) : s[i] = c /\ \A j \in 1 .. i - 1 : s[j] # c

RECURSIVE DecVal(_)
DecVal(s) ==
    IF s = <<>> THEN 0
    ELSE DecVal(SubSeq(s, 1, Len(s) - 1)) * 10 + DigitVal(s[Len(s)])

\* A decimal numeral with at most one digit after the point, in tenths.
Tenths(s) ==
    IF \E i \in 1 .. Len(s) : s[i] = "."
    THEN LET p == IndexOf(s, ".") IN
           DecVal(SubSeq(s, 1, p - 1)) * 10 + DecVal(SubSeq(s, p + 1, Len(s)))
    ELSE DecVal(s) * 10

\* "WxH" in tenths of a point.
NominalW(sz) == Tenths(SubSeq(sz, 1, IndexOf(sz, "x") - 1))
NominalH(sz) == Tenths(SubSeq(sz, IndexOf(sz, "x") + 1, Len(sz)))

ScaleFactor(scale) == CASE scale = "1x" -> 1 [] scale = "2x" -> 2 [] scale = "3x" -> 3

\* The sizes icon_sizes pairs with a file name.
SizesOf(filename) ==
    {icon_sizes[i].size : i \in {j \in 1 .. Len(icon_sizes) : icon_sizes[j].filename = filename}}

Width(box) == box[3] - box[1]
Height(box) == box[4] - box[2]

(* -------------------------------- claims -------------------------------- *)

\* C1: after a successful run every entry (size, filename) of icon_sizes has
\* a PNG file at icons_dir/filename whose width and height both equal size,
\* made from the 1024x1024 three-channel master image.
C1_FilesHaveTargetDimensions ==
    pc = "done" =>
        /\ base_icon.w = 1024 /\ base_icon.h = 1024 /\ base_icon.mode = "RGB"
        /\ \A i \in 1 .. Len(icon_sizes) :
             LET f == FileOf(icon_sizes[i].filename) IN
               /\ f.kind = "png"
               /\ f.w = icon_sizes[i].size
               /\ f.h = icon_sizes[i].size
               /\ f.mode = "RGB"

C1_Witness ==
    /\ pc = "done"
    /\ fs0 = StaleFS
    /\ FileOf("Icon-167.png").w = 167

\* C2: the writes of a run are always a prefix of: the 13 listed image files
\* in list order, then Contents.json; a successful run has written all 14,
\* each once, and its last event is the one success message.
C2_WriteOrder ==
    /\ IsPrefix(Writes, ListedFiles \o <<"Contents.json">>)
    /\ \A k \in 1 .. Len(events) :
         events[k].arg = "success" => k = Len(events) /\ pc = "done"
    /\ pc = "manifest" => Writes = ListedFiles
    /\ pc = "done" =>
         /\ Writes = ListedFiles \o <<"Contents.json">>
         /\ Writes[1] = "Icon-20.png" /\ Writes[13] = "Icon-1024.png"
         /\ events[Len(events)] = Ev("print", "success", 0)
         /\ Cardinality({k \in 1 .. Len(events) : events[k].op = "makedirs"}) = 1

C2_Witness ==
    /\ pc = "done"
    /\ Len(Writes) = 14
    /\ run = 1

\* C3: no file is written before the directory creation was attempted, and a
\* failed directory creation ends the run with no file written and the
\* filesystem as the run found it.
C3_NoWriteAfterMakedirsFailure ==
    /\ \A k \in 1 .. Len(events) :
         events[k].op = "write" => events[1].op = "makedirs"
    /\ pc \in {"start", "makedirs"} => Writes = <<>> /\ fs = fs0
    /\ failed = "makedirs" => pc = "aborted" /\ Writes = <<>> /\ fs = fs0

C3_Witness ==
    /\ failed = "makedirs"
    /\ pc = "aborted"
    /\ events = <<Ev("makedirs", "raise", 0)>>

\* C4: when the save of the k-th entry fails the run is aborted: the writes of
\* the run are exactly the entries before k (no later image, no Contents.json),
\* no success message was printed, and the files of the entries before k are
\* still the ones this run wrote.
C4_SaveFailureAborts ==
    failed = "save" =>
        /\ pc = "aborted"
        /\ failed_at \in 1 .. Len(icon_sizes)
        /\ Writes = SubSeq(ListedFiles, 1, failed_at - 1)
        /\ \A k \in 1 .. Len(events) : events[k].arg # "success"
        /\ FileOf("Contents.json") = fs0[contents_path]
        /\ \A j \in 1 .. Len(icon_sizes) :
             /\ j < failed_at =>
                  FileOf(icon_sizes[j].filename) = PngFile(Resize(base_icon, icon_sizes[j].size))
             /\ j > failed_at =>
                  FileOf(icon_sizes[j].filename) = fs0[Join(icons_dir, icon_sizes[j].filename)]

C4_Witness ==
    /\ failed = "save"
    /\ failed_at = 5
    /\ pc = "aborted"
    /\ FileOf("Icon-58.png").kind = "png" /\ FileOf("Icon-58.png").w = 58
    /\ FileOf("Icon-60.png").kind = "partial"

\* C5: a font that cannot be loaded never aborts the run: create_base_icon
\* returns the 1024x1024 master with either font, a run that ends well has
\* the same files and manifest with either font, and every other failure
\* (directory creation, save, manifest write) ends the run.
C5_FontFailureIsRecovered ==
    /\ failed # "font"
    /\ pc \notin {"start", "aborted"} =>
         /\ base_icon.font \in {"truetype", "default"}
         /\ base_icon.w = MasterSize /\ base_icon.h = MasterSize
    /\ io_fault => pc = "aborted" /\ failed \in {"makedirs", "save", "manifest"}
    /\ pc = "done" =>
         /\ \A i \in 1 .. Len(icon_sizes) :
              FileOf(icon_sizes[i].filename) =
                  [kind |-> "png", w |-> icon_sizes[i].size, h |-> icon_sizes[i].size,
                   mode |-> "RGB", body |-> <<>>]
         /\ FileOf("Contents.json") = TextFile(Strip(contents_json))

C5_Witness ==
    /\ pc = "done"
    /\ base_icon.font = "default"
    /\ ~io_fault

\* C6 as stated: every entry of the written manifest has an idiom among
\* phone, tablet, marketing and a scale among 1x, 2x, 3x.
C6_Original ==
    pc = "done" =>
        \A k \in 1 .. Len(ManifestOnDisk) :
            /\ ManifestOnDisk[k].idiom \in {"phone", "tablet", "marketing"}
            /\ ManifestOnDisk[k].scale \in {"1x", "2x", "3x"}

\* C6: every entry of the written manifest has an idiom among iphone, ipad,
\* ios-marketing and a scale among 1x, 2x, 3x.
C6_IdiomAndScaleSets ==
    pc = "done" =>
        \A k \in 1 .. Len(ManifestOnDisk) :
            /\ ManifestOnDisk[k].idiom \in {"iphone", "ipad", "ios-marketing"}
            /\ ManifestOnDisk[k].scale \in {"1x", "2x", "3x"}

C6_Witness ==
    /\ pc = "done"
    /\ Len(ManifestOnDisk) = 18
    /\ ManifestOnDisk[18].idiom = "ios-marketing"

\* C7: the file names the manifest refers to are the file names of icon_sizes;
\* after a successful run every manifest entry names an image file this run
\* wrote and every image file written is named by a manifest entry.
C7_ManifestInSync ==
    /\ {ImagesOf(Strip(contents_json))[k].filename :
            k \in 1 .. Len(ImagesOf(Strip(contents_json)))}
         = {icon_sizes[i].filename : i \in 1 .. Len(icon_sizes)}
    /\ pc = "done" =>
         LET named == {ManifestOnDisk[k].filename : k \in 1 .. Len(ManifestOnDisk)}
             written == {Writes[k] : k \in 1 .. Len(Writes)} \ {"Contents.json"}
         IN /\ named = written
            /\ \A n \in named : FileOf(n).kind = "png"

C7_Witness ==
    /\ pc = "done"
    /\ fs0 = EmptyFS
    /\ \E k \in 1 .. Len(ManifestOnDisk) : ManifestOnDisk[k].filename = Writes[5]

\* C8: a run that meets no fault of the system ends well whatever the
\* directory held before (absent, empty, populated, or left by an earlier
\* run), and every run that ends well leaves the same 14 files: each image
\* file with the dimensions of its entry and the same manifest text.
C8_RerunSameFinalState ==
    /\ pc = "aborted" => io_fault
    /\ pc = "done" =>
         /\ dir_exists
         /\ DOMAIN fs = Paths /\ Cardinality(Paths) = 14
         /\ fs = [p \in Paths |->
                    IF p = contents_path THEN TextFile(SubSeq(contents_json, 2, Len(contents_json) - 1))
                    ELSE LET s == CHOOSE s \in {icon_sizes[i].size : i \in 1 .. Len(icon_sizes)} :
                                      \E i \in 1 .. Len(icon_sizes) :
                                          icon_sizes[i] = Entry(s, p[2])
                         IN [kind |-> "png", w |-> s, h |-> s, mode |-> "RGB", body |-> <<>>]]

C8_Witness ==
    /\ pc = "done"
    /\ run = 2
    /\ fs0 = fs
    /\ dir_exists

\* C9 as stated: the ball's bounding box is centred on (size//2, size//2), its
\* width and height equal size // 3, and the highlight's width and height
\* equal a third of that.
C9_Original ==
    pc = "makedirs" =>
        /\ base_icon.ball_pos[1] + base_icon.ball_pos[3] = 2 * (size \div 2)
        /\ base_icon.ball_pos[2] + base_icon.ball_pos[4] = 2 * (size \div 2)
        /\ Width(base_icon.ball_pos) = size \div 3
        /\ Height(base_icon.ball_pos) = size \div 3
        /\ Width(base_icon.highlight_pos) = (size \div 3) \div 3
        /\ Height(base_icon.highlight_pos) = (size \div 3) \div 3

\* C9: the ball's bounding box is centred on (size//2, size//2); its width and
\* height are size // 3 when that is even and size // 3 - 1 when it is odd;
\* the highlight's width and height are (size // 3) // 3.
C9_BallGeometry ==
    pc = "makedirs" =>
        LET third == size \div 3 IN
        /\ base_icon.ball_pos[1] + base_icon.ball_pos[3] = 2 * (size \div 2)
        /\ base_icon.ball_pos[2] + base_icon.ball_pos[4] = 2 * (size \div 2)
        /\ Width(base_icon.ball_pos) = Height(base_icon.ball_pos)
        /\ Width(base_icon.ball_pos) = IF third % 2 = 0 THEN third ELSE third - 1
        /\ Width(base_icon.highlight_pos) = third \div 3
        /\ Height(base_icon.highlight_pos) = third \div 3

C9_Witness ==
    /\ pc = "makedirs"
    /\ size = 1024
    /\ base_icon.ball_pos = <<342, 342, 682, 682>>
    /\ base_icon.highlight_pos = <<399, 399, 512, 512>>

\* C10: for every entry of the written manifest the file it names has, in
\* icon_sizes and on disk, the pixel dimension nominal size times scale, and
\* no two entries have the same idiom, scale and size.
C10_SlotsMatchPixels ==
    pc = "done" =>
        /\ \A k \in 1 .. Len(ManifestOnDisk) :
             LET e == ManifestOnDisk[k] IN
               /\ SizesOf(e.filename) # {}
               /\ \A s \in SizesOf(e.filename) :
                    /\ s * 10 = NominalW(e.size) * ScaleFactor(e.scale)
                    /\ s * 10 = NominalH(e.size) * ScaleFactor(e.scale)
               /\ FileOf(e.filename).w * 10 = NominalW(e.size) * ScaleFactor(e.scale)
               /\ FileOf(e.filename).h * 10 = NominalH(e.size) * ScaleFactor(e.scale)
        /\ \A k, l \in 1 .. Len(ManifestOnDisk) :
             ( /\ ManifestOnDisk[k].idiom = ManifestOnDisk[l].idiom
               /\ ManifestOnDisk[k].scale = ManifestOnDisk[l].scale
               /\ ManifestOnDisk[k].size = ManifestOnDisk[l].size ) => k = l

C10_Witness ==
    /\ pc = "done"
    /\ \E k \in 1 .. Len(ManifestOnDisk) :
         /\ ManifestOnDisk[k].filename = "Icon-167.png"
         /\ NominalW(ManifestOnDisk[k].size) = 835
         /\ FileOf("Icon-167.png").w = 167

====
